---- MODULE Spec2Model ----
(***************************************************************************)
(* fawkes-crypto, PLONK arithmetization:                                   *)
(*   circuit/plonk/cs.rs            the gate compiler (CS)                 *)
(*   backend/plonk/mod.rs           field conversion, fawkes_cs_to_halo    *)
(*   backend/plonk/halo2_circuit.rs the synthesis bridge                   *)
(* Witness indices are 0-based as in the source; TLA+ sequences are        *)
(* 1-based, so witness i is values[i + 1].  Option<T> is a sequence of     *)
(* length 0 (None) or 1 (Some).                                            *)
(***************************************************************************)
EXTENDS Integers, Sequences, FiniteSets, TLC

VARIABLES values, gates, public, tracking, allocd, last, phase, layout, verdict, halo, conv

vars == <<values, gates, public, tracking, allocd, last, phase, layout, verdict, halo, conv>>

(* ------------------------------ bounds --------------------------------- *)
MaxVars == 2
MaxGates == 1
MaxPublic == 3
MaxLimbs == 2

(* --------------------------- field Fr ---------------------------------- *)
\* modulus of the prime field Fr the constraint system is instantiated with
P == 7

Fr == 0 .. (P - 1)

FAdd(a, b) == (a + b) % P
FMul(a, b) == (a * b) % P
FNeg(a) == (P - a) % P
FSub(a, b) == FAdd(a, FNeg(b))

None == << >>
Some(v) == <<v>>
IsSome(o) == o # << >>
Unwrap(o) == o[1]

(* --------------------------- Gate, CNum -------------------------------- *)
\* a*w[x] + b*w[y] + c*w[z] + d*w[x]*w[y] + e == 0, w a function index -> Fr
GateHolds(g, w) ==
    (g.a * w[g.x] + g.b * w[g.y] + g.c * w[g.z] + g.d * w[g.x] * w[g.y] + g.e) % P = 0

Gate(a, x, b, y, c, z, d, e) ==
    [a |-> a, x |-> x, b |-> b, y |-> y, c |-> c, z |-> z, d |-> d, e |-> e]

\* a circuit value: cached value and linear combination (scalar, index, constant)
CNum(value, lc) == [value |-> value, lc |-> lc]

\* value of the linear combination lc on the witness vector vals
LcValue(vals, lc) ==
    IF IsSome(vals[lc[2] + 1])
    THEN Some(FAdd(FMul(lc[1], Unwrap(vals[lc[2] + 1])), lc[3]))
    ELSE None

\* the circuit values over the current witness with scalars S and constants C
Operands(S, C) ==
    { CNum(LcValue(values, <<s, i, c>>), <<s, i, c>>) :
        s \in S, i \in 0 .. (Len(values) - 1), c \in C }

Snapshot == [values |-> values, gates |-> gates, public |-> public]

NoCall == [op |-> "new", args |-> << >>, coef |-> << >>, outcome |-> "ok",
           ret |-> << >>, pre |-> [values |-> << >>, gates |-> << >>, public |-> << >>]]

Call(op, args, coef, outcome, ret) ==
    [op |-> op, args |-> args, coef |-> coef, outcome |-> outcome,
     ret |-> ret, pre |-> Snapshot]

(* --------------------------- CS::alloc --------------------------------- *)
\* alloc handing out the index of the last existing slot
AllocIndexStale(vals) == IF Len(vals) = 0 THEN 0 ELSE Len(vals) - 1

AllocIndex(vals) == Len(vals)

AllocPush(vals, value) == Append(vals, value)

Alloc(value) ==
    /\ phase = "build"
    /\ values' = AllocPush(values, value)
    /\ allocd' = Append(allocd, AllocIndex(values))
    /\ last' = Call("alloc", <<value>>, << >>, "ok",
                    CNum(value, <<1, AllocIndex(values), 0>>))
    /\ UNCHANGED <<gates, public, tracking, phase, layout, verdict, halo, conv>>

(* ------------------------ CS::enforce_* -------------------------------- *)
AllKnown(x, y, z) == IsSome(x.value) /\ IsSome(y.value) /\ IsSome(z.value)

MulCheck(x, y, z) == FMul(Unwrap(x.value), Unwrap(y.value)) = Unwrap(z.value)

\* the tracking assertion of enforce_add comparing against x alone
AddCheckSlip(x, y, z) == Unwrap(x.value) = Unwrap(z.value)

AddCheck(x, y, z) == FAdd(Unwrap(x.value), Unwrap(y.value)) = Unwrap(z.value)

GenericCheck(x, y, z, k) ==
    LET xv == Unwrap(x.value)
        yv == Unwrap(y.value)
        zv == Unwrap(z.value)
    IN  FAdd(FAdd(FAdd(FAdd(FMul(k[1], xv), FMul(k[2], yv)), FMul(k[3], zv)),
                  FMul(FMul(k[4], xv), yv)), k[5]) = 0

\* enforce_mul with the sign of the z coefficient lost
MulGateSignSlip(x, y, z) ==
    Gate(FMul(x.lc[1], y.lc[3]), x.lc[2],
         FMul(x.lc[3], y.lc[1]), y.lc[2],
         z.lc[1], z.lc[2],
         FMul(x.lc[1], y.lc[1]),
         FSub(FMul(x.lc[3], y.lc[3]), z.lc[3]))

MulGate(x, y, z) ==
    Gate(FMul(x.lc[1], y.lc[3]), x.lc[2],
         FMul(x.lc[3], y.lc[1]), y.lc[2],
         FNeg(z.lc[1]), z.lc[2],
         FMul(x.lc[1], y.lc[1]),
         FSub(FMul(x.lc[3], y.lc[3]), z.lc[3]))

\* enforce_add with the constant of y dropped from e
AddGateTermSlip(x, y, z) ==
    Gate(x.lc[1], x.lc[2],
         y.lc[1], y.lc[2],
         FNeg(z.lc[1]), z.lc[2],
         0,
         FSub(x.lc[3], z.lc[3]))

AddGate(x, y, z) ==
    Gate(x.lc[1], x.lc[2],
         y.lc[1], y.lc[2],
         FNeg(z.lc[1]), z.lc[2],
         0,
         FSub(FAdd(x.lc[3], y.lc[3]), z.lc[3]))

\* k = <<a, b, c, d, e>>
GenericGate(x, y, z, k) ==
    Gate(FAdd(FAdd(FMul(k[1], x.lc[1]), FMul(FMul(k[4], x.lc[1]), y.lc[3])), y.lc[3]),
         x.lc[2],
         FAdd(FAdd(FMul(k[2], y.lc[1]), FMul(FMul(k[4], y.lc[1]), x.lc[3])), x.lc[3]),
         y.lc[2],
         FMul(k[3], z.lc[1]),
         z.lc[2],
         FMul(FMul(k[4], x.lc[1]), y.lc[1]),
         FAdd(FAdd(FAdd(FAdd(k[5], FMul(k[1], x.lc[3])), FMul(k[2], y.lc[3])),
                   FMul(k[3], z.lc[3])), FMul(FMul(k[4], x.lc[3]), y.lc[3])))

\* enforce pushing the compiled gate at the front of the gate list
EnforceFront(op, x, y, z, k, holds, g) ==
    /\ phase = "build"
    /\ IF tracking /\ AllKnown(x, y, z) /\ ~holds
       THEN /\ last' = Call(op, <<x, y, z>>, k, "UnsatisfiedConstraint", << >>)
            /\ phase' = "panicked"
            /\ UNCHANGED gates
       ELSE /\ gates' = <<g>> \o gates
            /\ last' = Call(op, <<x, y, z>>, k, "ok", << >>)
            /\ UNCHANGED phase
    /\ UNCHANGED <<values, public, tracking, allocd, layout, verdict, halo, conv>>

\* the body shared by the three enforce operations: the tracking assertion,
\* then the push of the compiled gate
Enforce(op, x, y, z, k, holds, g) ==
    /\ phase = "build"
    /\ IF tracking /\ AllKnown(x, y, z) /\ ~holds
       THEN \* assert! panics: the build ends here and nothing is pushed
            /\ last' = Call(op, <<x, y, z>>, k, "UnsatisfiedConstraint", << >>)
            /\ phase' = "panicked"
            /\ UNCHANGED gates
       ELSE /\ gates' = Append(gates, g)
            /\ last' = Call(op, <<x, y, z>>, k, "ok", << >>)
            /\ UNCHANGED phase
    /\ UNCHANGED <<values, public, tracking, allocd, layout, verdict, halo, conv>>

EnforceMul(x, y, z) ==
    Enforce("enforce_mul", x, y, z, << >>,
            AllKnown(x, y, z) /\ MulCheck(x, y, z), MulGate(x, y, z))

EnforceAdd(x, y, z) ==
    Enforce("enforce_add", x, y, z, << >>,
            AllKnown(x, y, z) /\ AddCheck(x, y, z), AddGate(x, y, z))

EnforceGeneric(x, y, z, k) ==
    Enforce("enforce_generic", x, y, z, k,
            AllKnown(x, y, z) /\ GenericCheck(x, y, z, k), GenericGate(x, y, z, k))

(* --------------------------- CS::inputize ------------------------------ *)
IsBare(n) == n.lc[1] = 1 /\ n.lc[3] = 0

\* CNum::from_const: a constant has scalar 0 and carries the value as constant
ConstNum(v) == CNum(Some(v), <<0, 0, v>>)

\* the variable inputize allocates for a composite operand
Derived(n) == CNum(n.value, <<1, AllocIndex(values), 0>>)

\* inputize exposing the operand's own index in both branches
ExposedIndexOwn(n) == n.lc[2]

\* inputize taking the witness length after the push as the fresh index
ExposedIndexNext(n) == IF IsBare(n) THEN n.lc[2] ELSE Derived(n).lc[2] + 1

\* the index pushed to the public list
ExposedIndex(n) == IF IsBare(n) THEN n.lc[2] ELSE Derived(n).lc[2]

\* m.assert_eq(n): the equality gate m + 0 = n
AssertEqGate(m, n) == AddGate(m, ConstNum(0), n)

Inputize(n) ==
    /\ phase = "build"
    /\ IF IsBare(n)
       THEN UNCHANGED <<values, gates, allocd>>
       ELSE /\ values' = AllocPush(values, n.value)
            /\ allocd' = Append(allocd, AllocIndex(values))
            /\ gates' = Append(gates, AssertEqGate(Derived(n), n))
    /\ public' = Append(public, ExposedIndex(n))
    /\ last' = Call("inputize", <<n>>, << >>, "ok",
                    IF IsBare(n) THEN << >> ELSE Derived(n))
    /\ UNCHANGED <<tracking, phase, layout, verdict, halo, conv>>

(* ------------------------- field conversion ---------------------------- *)
\* bytes of one u64 limb and limbs of one field representation
LimbBytes == 8
ByteBase == 256

\* u64::to_le_bytes
RECURSIVE LeBytes(_, _)
LeBytes(v, n) == IF n = 0 THEN << >> ELSE <<v % ByteBase>> \o LeBytes(v \div ByteBase, n - 1)

ToLeBytes(limb) == LeBytes(limb, LimbBytes)

\* u64::from_le_bytes
RECURSIVE FromLeBytes(_)
FromLeBytes(b) ==
    IF b = << >> THEN 0 ELSE b[1] + ByteBase * FromLeBytes(Tail(b))

\* little-endian comparison a < b of two equally long digit sequences
RECURSIVE LessLE(_, _)
LessLE(a, b) ==
    IF a = << >> THEN FALSE
    ELSE LET n == Len(a)
         IN  \/ a[n] < b[n]
             \/ a[n] = b[n] /\ LessLE(SubSeq(a, 1, n - 1), SubSeq(b, 1, n - 1))

\* a field: number of u64 limbs of its representation, modulus as limbs
Field(nl, modulus) == [nl |-> nl, modulus |-> modulus]

RECURSIVE Flatten(_)
Flatten(ss) == IF ss = << >> THEN << >> ELSE Head(ss) \o Flatten(Tail(ss))

ModulusBytes(f) == Flatten([i \in 1 .. f.nl |-> ToLeBytes(f.modulus[i])])

Panic == [status |-> "panic", val |-> << >>]
Ok(v) == [status |-> "ok", val |-> v]

\* the copy loop of num_to_halo_fp: limb i is copied into to_ref[8*i..], and
\* copy_from_slice panics unless that destination slice has the source's length
RECURSIVE CopyLimbs(_, _, _)
CopyLimbs(buff, to, i) ==
    IF i = Len(buff) THEN Ok(to)
    ELSE IF Len(to) - LimbBytes * i # LimbBytes THEN Panic
    ELSE CopyLimbs(buff,
                   [j \in 1 .. Len(to) |->
                      IF j > LimbBytes * i THEN ToLeBytes(buff[i + 1])[j - LimbBytes * i]
                      ELSE to[j]],
                   i + 1)

\* Fy::from_repr_vartime(..).unwrap()
FromRepr(bytes, fy) ==
    IF LessLE(bytes, ModulusBytes(fy)) THEN Ok(bytes) ELSE Panic

\* from: the limbs of a Num<Fx>; result: the bytes of an Fy, or a panic
NumToHaloFp(from, fy) ==
    LET to == [j \in 1 .. (LimbBytes * fy.nl) |-> 0]
    IN  IF Len(from) * LimbBytes # Len(to) THEN Panic
        ELSE LET copied == CopyLimbs(from, to, 0)
             IN  IF copied.status = "panic" THEN Panic
                 ELSE FromRepr(copied.val, fy)

\* Num::from_uint(..).unwrap()
FromUint(limbs, fx) ==
    IF LessLE(limbs, fx.modulus) THEN Ok(limbs) ELSE Panic

\* from: the bytes of an Fy; result: the limbs of a Num<Fx>, or a panic
HaloFpToNum(from, fx) ==
    IF Len(from) # fx.nl * LimbBytes THEN Panic
    ELSE FromUint([i \in 1 .. fx.nl |->
                     FromLeBytes(SubSeq(from, LimbBytes * (i - 1) + 1, LimbBytes * i))],
                  fx)

ConvForward(fx, fy, from) ==
    /\ conv = << >>
    /\ conv' = [fx |-> fx, fy |-> fy, from |-> from,
                fwd |-> NumToHaloFp(from, fy), back |-> << >>]
    /\ UNCHANGED <<values, gates, public, tracking, allocd, last, phase, layout,
                   verdict, halo>>

ConvBackward ==
    /\ conv # << >>
    /\ conv.back = << >>
    /\ conv.fwd.status = "ok"
    /\ conv' = [conv EXCEPT !.back = <<HaloFpToNum(conv.fwd.val, conv.fx)>>]
    /\ UNCHANGED <<values, gates, public, tracking, allocd, last, phase, layout,
                   verdict, halo>>

(* ----------------- public values, fawkes_cs_to_halo -------------------- *)
RECURSIVE Insert(_, _)
Insert(s, v) ==
    IF s = << >> THEN <<v>>
    ELSE IF v < Head(s) THEN <<v>> \o s
    ELSE <<Head(s)>> \o Insert(Tail(s), v)

\* the public list taken in insertion order
Unsorted(s) == s

\* p.sort() / itertools::sorted
RECURSIVE Sorted(_)
Sorted(s) == IF s = << >> THEN << >> ELSE Insert(Sorted(Tail(s)), Head(s))

\* slice::binary_search over s[left .. right), 0-based: <<"Ok", pos>> or
\* <<"Err", pos>>.  The loop of the standard library the program is built
\* with: the range is halved, keeping the upper half unless the probe is
\* greater than the target, until one element is left, and only that element
\* is tested for equality; among equal entries it finds the last one probed.
RECURSIVE BinarySearchIn(_, _, _, _)
BinarySearchIn(s, t, left, right) ==
    LET size == right - left
    IN  IF size <= 0 THEN <<"Err", left>>
        ELSE IF size = 1
        THEN IF s[left + 1] = t THEN <<"Ok", left>>
             ELSE <<"Err", left + (IF s[left + 1] < t THEN 1 ELSE 0)>>
        ELSE LET half == size \div 2
                 mid == left + half
                 base == IF s[mid + 1] > t THEN left ELSE mid
             IN  BinarySearchIn(s, t, base, base + (size - half))

BinarySearch(s, t) == BinarySearchIn(s, t, 0, Len(s))

ValueAdvice(v) == [kind |-> "ValueAdvice", v |-> v]
ValueInstance(i) == [kind |-> "ValueInstance", i |-> i]
\* an AssignedCell: the cell and the value it was assigned with
ValueCell(c, v) == [kind |-> "ValueCell", cell |-> c, v |-> v]

\* the get_value closure: a public index becomes a reference to its position in
\* the sorted public list, any other index carries its witness value
GetValue(vals, pub, i) ==
    LET r == BinarySearch(pub, i)
    IN  IF r[1] = "Ok" THEN ValueInstance(r[2]) ELSE ValueAdvice(vals[i + 1])

\* extract_inputs
ExtractInputs(vals, pub) ==
    LET p == Sorted(pub) IN [k \in 1 .. Len(p) |-> vals[p[k] + 1]]

\* Num<Fr>::to_uint().into_inner() for a field of nl limbs
ToUint(v, nl) == [i \in 1 .. nl |-> IF i = 1 THEN v ELSE 0]

FrField(nl) == Field(nl, ToUint(P, nl))

ConvertNum(v, nl) == NumToHaloFp(ToUint(v, nl), FrField(nl))

ConvertOption(o, nl) ==
    IF IsSome(o)
    THEN LET r == ConvertNum(Unwrap(o), nl)
         IN  IF r.status = "ok" THEN Ok(Some(r.val)) ELSE Panic
    ELSE Ok(None)

FawkesCsToHaloResult(vals, gs, pub, nl) ==
    LET p == Sorted(pub)
        cv == [i \in 1 .. Len(vals) |-> ConvertOption(vals[i], nl)]
        hv == [i \in 1 .. Len(vals) |-> cv[i].val]
        cg == [j \in 1 .. Len(gs) |->
                 [f \in {"a", "b", "c", "d", "e"} |-> ConvertNum(gs[j][f], nl)]]
        failed == \/ \E i \in 1 .. Len(vals) : cv[i].status = "panic"
                  \/ \E j \in 1 .. Len(gs) :
                        \E f \in {"a", "b", "c", "d", "e"} : cg[j][f].status = "panic"
    IN  IF failed THEN [status |-> "panic", nl |-> nl, gates |-> << >>, ins |-> << >>]
        ELSE [status |-> "ok", nl |-> nl,
              gates |-> [j \in 1 .. Len(gs) |->
                           [x |-> GetValue(hv, p, gs[j].x),
                            y |-> GetValue(hv, p, gs[j].y),
                            z |-> GetValue(hv, p, gs[j].z),
                            a |-> cg[j].a.val, b |-> cg[j].b.val, c |-> cg[j].c.val,
                            d |-> cg[j].d.val, e |-> cg[j].e.val]],
              ins |-> [k \in 1 .. Len(p) |-> hv[p[k] + 1]]]

FawkesCsToHalo(nl) ==
    /\ phase = "build"
    /\ phase' = "converted"
    /\ halo' = FawkesCsToHaloResult(values, gates, public, nl)
    /\ last' = Call("fawkes_cs_to_halo", <<nl>>, << >>, "ok", << >>)
    /\ UNCHANGED <<values, gates, public, tracking, allocd, layout, verdict, conv>>

ExtractInputsCall ==
    /\ phase = "build"
    /\ phase' = "extracted"
    /\ halo' = [status |-> "ok", nl |-> 0, gates |-> << >>,
                ins |-> ExtractInputs(values, public)]
    /\ last' = Call("extract_inputs", << >>, << >>, "ok", << >>)
    /\ UNCHANGED <<values, gates, public, tracking, allocd, layout, verdict, conv>>

(* ----------------------- synthesis bridge ------------------------------ *)
\* FawkesGateValues::extract_gates: every operand of every gate gets a
\* reference of its own
ExtractGates(vals, gs, pub) ==
    [j \in 1 .. Len(gs) |->
        [x |-> GetValue(vals, pub, gs[j].x),
         y |-> GetValue(vals, pub, gs[j].y),
         z |-> GetValue(vals, pub, gs[j].z),
         k |-> <<gs[j].a, gs[j].b, gs[j].c, gs[j].d, gs[j].e>>]]

AdviceCell(col, row) == <<"advice", col, row>>
InstanceCell(pos) == <<"instance", pos>>

\* the regions a gate's closure is run on: the layouter's measuring region
\* ("shape"), and the region of a backend that does not evaluate advice values
\* ("keygen") or does ("prove")
Mode(needs) == IF needs THEN "prove" ELSE "keygen"

\* the value a region keeps of an assigned advice value: only an evaluating
\* backend calls the value closure, elsewhere the value stays unknown
Evaluated(mode, v) == IF mode = "prove" THEN v ELSE None

\* a region under assignment: one row of the three advice columns; cap is the
\* number of rows the backend can use
EmptyRow == [status |-> "ok", sel |-> FALSE, x |-> << >>, y |-> << >>, z |-> << >>,
             k |-> << >>, copies |-> {}]

\* ValueReference::assign on column col of row `row`: the updated reference and
\* the updated region.  An evaluating backend fails assign_advice and
\* copy_advice on an unknown value; the `?` returns that error and leaves the
\* reference and the column as they were.  The measuring region has no row
\* limit
Assign(ref, rg, col, row, cap, mode) ==
    CASE ref.kind = "ValueAdvice" ->
           IF mode = "prove" /\ ~IsSome(ref.v)
           THEN [ref |-> ref, rg |-> [rg EXCEPT !.status = "Synthesis"]]
           ELSE [ref |-> ValueCell(AdviceCell(col, row), Evaluated(mode, ref.v)),
                 rg |-> [rg EXCEPT ![col] = <<[from |-> "value",
                                               v |-> Evaluated(mode, ref.v)]>>]]
      [] ref.kind = "ValueInstance" ->
           IF mode # "shape" /\ ref.i >= cap
           THEN [ref |-> ref, rg |-> [rg EXCEPT !.status = "NotEnoughRowsAvailable"]]
           ELSE [ref |-> ref,
                 rg |-> [rg EXCEPT ![col] = <<[from |-> "instance", pos |-> ref.i]>>,
                                   !.copies = @ \cup {{InstanceCell(ref.i),
                                                       AdviceCell(col, row)}}]]
      [] ref.kind = "ValueCell" ->
           IF mode = "prove" /\ ~IsSome(ref.v)
           THEN [ref |-> ref, rg |-> [rg EXCEPT !.status = "Synthesis"]]
           ELSE [ref |-> ref,
                 rg |-> [rg EXCEPT ![col] = <<[from |-> "cell", cell |-> ref.cell,
                                               v |-> Evaluated(mode, ref.v)]>>,
                                   !.copies = @ \cup {{ref.cell, AdviceCell(col, row)}}]]

\* one run of the region closure of FawkesGateConfig::synthesize on gate
\* values g: the selector, the three operands, the coefficients.  g holds the
\* references as the run leaves them, rg the region
GateClosure(g, row, cap, mode) ==
    IF mode # "shape" /\ row >= cap
    THEN [g |-> g, rg |-> [EmptyRow EXCEPT !.status = "NotEnoughRowsAvailable"]]
    ELSE LET r0 == [EmptyRow EXCEPT !.sel = TRUE]
             ax == Assign(g.x, r0, "x", row, cap, mode)
             gx == [g EXCEPT !.x = ax.ref]
             ay == Assign(g.y, ax.rg, "y", row, cap, mode)
             gy == [gx EXCEPT !.y = ay.ref]
             az == Assign(g.z, ay.rg, "z", row, cap, mode)
             gz == [gy EXCEPT !.z = az.ref]
         IN  IF ax.rg.status # "ok" THEN [g |-> gx, rg |-> ax.rg]
             ELSE IF ay.rg.status # "ok" THEN [g |-> gy, rg |-> ay.rg]
             ELSE IF az.rg.status # "ok" THEN [g |-> gz, rg |-> az.rg]
             ELSE [g |-> gz, rg |-> [az.rg EXCEPT !.k = g.k]]

\* FawkesGateConfig::synthesize: layouter.assign_region of the
\* SimpleFloorPlanner runs the closure on the measuring region and then, with
\* the references that run left in g, on the backend's region
SynthesizeGate(g, row, cap, needs) ==
    LET measured == GateClosure(g, row, cap, "shape")
    IN  IF measured.rg.status # "ok" THEN measured.rg
        ELSE GateClosure(measured.g, row, cap, Mode(needs)).rg

\* the loop of Circuit::synthesize over the extracted gates, gate j on row j
RECURSIVE SynthesizeFrom(_, _, _, _, _)
SynthesizeFrom(gvs, j, cap, needs, lay) ==
    IF j > Len(gvs) THEN lay
    ELSE LET r == SynthesizeGate(gvs[j], j - 1, cap, needs)
         IN  IF r.status # "ok"
             THEN [lay EXCEPT !.status = r.status, !.rows = Append(@, r)]
             ELSE SynthesizeFrom(gvs, j + 1, cap, needs,
                                 [lay EXCEPT !.rows = Append(@, r),
                                             !.copies = @ \cup r.copies])

SynthesizeResult(vals, gs, pub, cap, needs) ==
    SynthesizeFrom(ExtractGates(vals, gs, Sorted(pub)), 1, cap, needs,
                   [status |-> "ok", rows |-> << >>, copies |-> {}, cap |-> cap])

Synthesize(cap, needs) ==
    /\ phase = "build"
    /\ phase' = "synthesized"
    /\ layout' = SynthesizeResult(values, gates, public, cap, needs)
    /\ last' = Call("synthesize", <<cap, needs>>, << >>, "ok", << >>)
    /\ UNCHANGED <<values, gates, public, tracking, allocd, verdict, halo, conv>>

(* ------------- synthesis bridge, prover.rs revision -------------------- *)
\* SmartValue: v is Left(value) until the first assignment and Right(cell)
\* after it; input_id is the position in the sorted public list, if any
Left(v) == [side |-> "Left", v |-> v]
Right(c, v) == [side |-> "Right", cell |-> c, v |-> v]
SmartValue(v, input_id) == [v |-> v, input_id |-> input_id]

\* the get_value closure of prover.rs
SmartGetValue(vals, pub, i) ==
    LET r == BinarySearch(pub, i)
    IN  SmartValue(Left(vals[i + 1]), IF r[1] = "Ok" THEN Some(r[2]) ELSE None)

\* FawkesGateValues::extract_gates of prover.rs, which sorts the public list
SmartExtractGates(vals, gs, pub) ==
    LET public_ == Sorted(pub)
    IN  [j \in 1 .. Len(gs) |->
           [x |-> SmartGetValue(vals, public_, gs[j].x),
            y |-> SmartGetValue(vals, public_, gs[j].y),
            z |-> SmartGetValue(vals, public_, gs[j].z),
            k |-> <<gs[j].a, gs[j].b, gs[j].c, gs[j].d, gs[j].e>>]]

\* a region of the prover.rs revision; dropped collects the errors of operand
\* assignments whose Result the caller discarded
SmartEmptyRow == [status |-> "ok", sel |-> FALSE, x |-> << >>, y |-> << >>, z |-> << >>,
                  k |-> << >>, copies |-> {}, dropped |-> << >>]

\* SmartValue::assign; res is the Result it returns.  An evaluating backend
\* fails assign_advice and copy_advice on an unknown value
SmartAssign(sv, rg, col, row, mode) ==
    IF mode = "prove" /\ ~IsSome(sv.v.v)
    THEN [sv |-> sv, rg |-> rg, res |-> "Synthesis"]
    ELSE IF sv.v.side = "Left"
    THEN [sv |-> [sv EXCEPT !.v = Right(AdviceCell(col, row), Evaluated(mode, sv.v.v))],
          rg |-> [rg EXCEPT ![col] = <<[from |-> "value",
                                        v |-> Evaluated(mode, sv.v.v)]>>],
          res |-> "ok"]
    ELSE [sv |-> sv,
          rg |-> [rg EXCEPT ![col] = <<[from |-> "cell", cell |-> sv.v.cell,
                                        v |-> Evaluated(mode, sv.v.v)]>>,
                            !.copies = @ \cup {{sv.v.cell, AdviceCell(col, row)}}],
          res |-> "ok"]

\* the region after the Result res of an operand assignment was discarded
Discard(rg, res) ==
    IF res = "ok" THEN rg ELSE [rg EXCEPT !.dropped = Append(@, res)]

\* one run of the region closure of FawkesGateConfig::synthesize of prover.rs:
\* the selector, the three operand assignments (their Results unused), the
\* coefficients
SmartGateClosure(g, row, cap, mode) ==
    IF mode # "shape" /\ row >= cap
    THEN [g |-> g, rg |-> [SmartEmptyRow EXCEPT !.status = "NotEnoughRowsAvailable"]]
    ELSE LET r0 == [SmartEmptyRow EXCEPT !.sel = TRUE]
             ax == SmartAssign(g.x, r0, "x", row, mode)
             r1 == Discard(ax.rg, ax.res)
             ay == SmartAssign(g.y, r1, "y", row, mode)
             r2 == Discard(ay.rg, ay.res)
             az == SmartAssign(g.z, r2, "z", row, mode)
             r3 == Discard(az.rg, az.res)
         IN  [g |-> [g EXCEPT !.x = ax.sv, !.y = ay.sv, !.z = az.sv],
              rg |-> [r3 EXCEPT !.k = g.k]]

\* FawkesGateConfig::synthesize of prover.rs: the closure run on the
\* measuring region, then on the backend's region
SmartSynthesizeGate(g, row, cap, needs) ==
    LET measured == SmartGateClosure(g, row, cap, "shape")
    IN  SmartGateClosure(measured.g, row, cap, Mode(needs)).rg

\* the loop of Circuit::synthesize of prover.rs, gate j on row j
RECURSIVE SmartSynthesizeFrom(_, _, _, _, _)
SmartSynthesizeFrom(gvs, j, cap, needs, lay) ==
    IF j > Len(gvs) THEN lay
    ELSE LET r == SmartSynthesizeGate(gvs[j], j - 1, cap, needs)
         IN  IF r.status # "ok"
             THEN [lay EXCEPT !.status = r.status, !.rows = Append(@, r)]
             ELSE SmartSynthesizeFrom(gvs, j + 1, cap, needs,
                                      [lay EXCEPT !.rows = Append(@, r),
                                                  !.copies = @ \cup r.copies])

SmartSynthesizeResult(vals, gs, pub, cap, needs) ==
    SmartSynthesizeFrom(SmartExtractGates(vals, gs, pub), 1, cap, needs,
                        [status |-> "ok", rows |-> << >>, copies |-> {}, cap |-> cap])

SmartSynthesize(cap, needs) ==
    /\ phase = "build"
    /\ phase' = "prover_synthesized"
    /\ layout' = SmartSynthesizeResult(values, gates, public, cap, needs)
    /\ last' = Call("prover_synthesize", <<cap, needs>>, << >>, "ok", << >>)
    /\ UNCHANGED <<values, gates, public, tracking, allocd, verdict, halo, conv>>

(* ----------------------- verification oracle --------------------------- *)
\* the value a placed cell holds when the instance column holds ins
CellValue(lay, c, ins) ==
    LET content == lay.rows[c[3] + 1][c[2]][1]
    IN  CASE content.from = "value" -> content.v
          [] content.from = "instance" -> Some(ins[content.pos + 1])
          [] content.from = "cell" -> content.v

Columns == {"x", "y", "z"}

\* the gate polynomial sel * (a*x + b*y + c*z + d*x*y + e) vanishes on row j
RowHolds(lay, j, ins) ==
    LET k == lay.rows[j].k
        xv == Unwrap(CellValue(lay, AdviceCell("x", j - 1), ins))
        yv == Unwrap(CellValue(lay, AdviceCell("y", j - 1), ins))
        zv == Unwrap(CellValue(lay, AdviceCell("z", j - 1), ins))
    IN  \/ ~lay.rows[j].sel
        \/ (k[1] * xv + k[2] * yv + k[3] * zv + k[4] * xv * yv + k[5]) % P = 0

CopyHolds(lay, pair, ins) ==
    \A c, d \in pair :
        LET val(u) == IF u[1] = "instance" THEN Some(ins[u[2] + 1])
                      ELSE CellValue(lay, u, ins)
        IN  val(c) = val(d)

\* the mock prover on a synthesized circuit and an instance vector
MockVerifyResult(lay, ins) ==
    IF lay.status # "ok" THEN lay.status
    ELSE IF \E j \in 1 .. Len(lay.rows) : \E col \in Columns :
               ~IsSome(CellValue(lay, AdviceCell(col, j - 1), ins))
    THEN "IncompleteWitness"
    ELSE IF /\ \A j \in 1 .. Len(lay.rows) : RowHolds(lay, j, ins)
            /\ \A pair \in lay.copies : CopyHolds(lay, pair, ins)
    THEN "pass"
    ELSE "fail"

MockVerify(ins) ==
    /\ phase = "synthesized"
    /\ phase' = "verified"
    /\ verdict' = [ins |-> ins, result |-> MockVerifyResult(layout, ins)]
    /\ last' = Call("mock_verify", <<ins>>, << >>, "ok", << >>)
    /\ UNCHANGED <<values, gates, public, tracking, allocd, layout, halo, conv>>

(* ----------------------- specification: compile ------------------------ *)
InitCS ==
    /\ values = << >>
    /\ gates = << >>
    /\ public = << >>
    /\ tracking \in BOOLEAN
    /\ allocd = << >>
    /\ last = NoCall
    /\ phase = "build"
    /\ layout = << >>
    /\ verdict = << >>
    /\ halo = << >>
    /\ conv = << >>

\* operand scalars, operand constants, witness values and raw coefficient
\* tuples the gate compiler is exercised with
WideScalars == {1, 2}
WideConsts == {0, 1}
WideValues == {None, Some(2)}
CoefTuples == { <<0, 0, 0, 0, 0>>, <<1, 1, P - 1, 0, 0>>, <<0, 0, P - 1, 1, 0>>,
                <<2, 1, 3, 1, 1>> }

\* allocations, then one enforce call on any three operands
NextCompile ==
    \/ Len(values) < MaxVars /\ gates = << >> /\ \E v \in WideValues : Alloc(v)
    \/ gates = << >> /\ \E x, y, z \in Operands(WideScalars, WideConsts) :
          EnforceMul(x, y, z)
    \/ gates = << >> /\ \E x, y, z \in Operands(WideScalars, WideConsts) :
          EnforceAdd(x, y, z)
    \/ gates = << >> /\ \E x, y, z \in Operands(WideScalars, WideConsts) :
          \E k \in CoefTuples : EnforceGeneric(x, y, z, k)

SpecCompile == InitCS /\ [][NextCompile]_vars

(* --------------------- specification: whole bridge --------------------- *)
BuildValues == {None, Some(2), Some(4)}
BuildCoefs == { <<1, 1, P - 1, 1, 0>> }
RowCaps == {1, 4}

\* the public values of the witness, and those with one slot raised by one
HonestInputs == [k \in 1 .. Len(public) |->
                   LET w == ExtractInputs(values, public)[k]
                   IN  IF IsSome(w) THEN Unwrap(w) ELSE 0]

InstanceVectors ==
    {HonestInputs} \cup
    { [HonestInputs EXCEPT ![k] = (@ + 1) % P] : k \in 1 .. Len(public) }

Next ==
    \/ Len(values) < MaxVars /\ \E v \in BuildValues : Alloc(v)
    \/ Len(gates) < MaxGates /\ \E x, y, z \in Operands({1}, {0}) : EnforceMul(x, y, z)
    \/ Len(gates) < MaxGates /\ \E x, y, z \in Operands({1}, {0}) : EnforceAdd(x, y, z)
    \/ Len(gates) < MaxGates /\ \E x, y, z \in Operands({1}, {0}) :
          \E k \in BuildCoefs : EnforceGeneric(x, y, z, k)
    \/ Len(public) < MaxPublic /\ \E n \in Operands({1, 3}, {0}) :
          /\ IsBare(n) \/ (Len(values) < MaxVars /\ Len(gates) < MaxGates)
          /\ Inputize(n)
    \/ \E cap \in RowCaps, needs \in BOOLEAN : Synthesize(cap, needs)
    \/ \E cap \in RowCaps, needs \in BOOLEAN : SmartSynthesize(cap, needs)
    \/ \E ins \in InstanceVectors : MockVerify(ins)
    \/ \E nl \in 1 .. MaxLimbs : FawkesCsToHalo(nl)
    \/ ExtractInputsCall

Spec == InitCS /\ [][Next]_vars

(* ------------------- specification: public inputs ---------------------- *)
InputValues == {None, Some(2), Some(4)}
InputScalars == {1, 3}
InputConsts == {0, 5}

NextInput ==
    \/ Len(values) < MaxVars /\ \E v \in InputValues : Alloc(v)
    \/ Len(public) < MaxPublic /\ \E n \in Operands(InputScalars, InputConsts) :
          /\ IsBare(n) \/ (Len(values) < MaxVars /\ Len(gates) < MaxGates)
          /\ Inputize(n)
    \/ \E nl \in 1 .. MaxLimbs : FawkesCsToHalo(nl)
    \/ ExtractInputsCall

SpecInput == InitCS /\ [][NextInput]_vars

(* ------------------- specification: call sequences --------------------- *)
\* every witness value is one: with tracking on a product check passes and a
\* sum check fails
FrameValues == {Some(1)}

\* a further enforce or inputize call is made while at most MaxGates entries
\* were appended to the gate list and the public list together
FrameRoom == Len(gates) + Len(public) <= MaxGates

\* allocations, then any sequence of enforce and inputize calls on bare
\* variables (inputize also on multiples of a variable)
NextFrame ==
    \/ /\ Len(values) < MaxVars /\ gates = << >> /\ public = << >>
       /\ \E v \in FrameValues : Alloc(v)
    \/ FrameRoom /\ \E x, y, z \in Operands({1}, {0}) : EnforceMul(x, y, z)
    \/ FrameRoom /\ \E x, y, z \in Operands({1}, {0}) : EnforceAdd(x, y, z)
    \/ FrameRoom /\ \E x, y, z \in Operands({1}, {0}) :
          \E k \in BuildCoefs : EnforceGeneric(x, y, z, k)
    \/ FrameRoom /\ \E n \in Operands({1, 3}, {0}) :
          /\ IsBare(n) \/ Len(values) < MaxVars
          /\ Inputize(n)

SpecFrame == InitCS /\ [][NextFrame]_vars

(* ------------------- specification: field conversion ------------------- *)
LimbSet == {0, 1, 258, 70000}

\* two moduli per width; every element of LimbSet^nl below the modulus is a value
BigModulus(nl) == [i \in 1 .. nl |-> IF i = nl THEN 70001 ELSE 5]
SmallModulus(nl) == [i \in 1 .. nl |-> IF i = nl THEN 300 ELSE 5]

FieldSet ==
    UNION { {Field(nl, BigModulus(nl)), Field(nl, SmallModulus(nl))} : nl \in 1 .. MaxLimbs }

Elements(f) == { e \in [1 .. f.nl -> LimbSet] : LessLE(e, f.modulus) }

NextConv ==
    \/ \E fx \in FieldSet, fy \in FieldSet : \E from \in Elements(fx) :
          ConvForward(fx, fy, from)
    \/ ConvBackward

SpecConv == InitCS /\ [][NextConv]_vars

(* ======================= claims on the gate compiler =================== *)
Assignments == [0 .. (Len(values) - 1) -> Fr]

LastGate == gates[Len(gates)]

Pushed(op) == last.op = op /\ last.outcome = "ok" /\ Len(gates) > 0

\* C1: enforce_mul(x, y, z) with x = (a0,ix,c0), y = (b0,iy,c1), z = (g0,iz,c2)
\* appends the gate a = a0*c1, b = b0*c0, c = -g0, d = a0*b0, e = c0*c1 - c2
\* over (ix, iy, iz), and for every witness assignment w that gate holds
\* exactly when (a0*w[ix] + c0) * (b0*w[iy] + c1) = g0*w[iz] + c2.
C1_EnforceMulGate ==
    Pushed("enforce_mul") =>
        LET x == last.args[1].lc
            y == last.args[2].lc
            z == last.args[3].lc
            g == LastGate
        IN  /\ g.a = (x[1] * y[3]) % P
            /\ g.b = (y[1] * x[3]) % P
            /\ g.c = (P - z[1]) % P
            /\ g.d = (x[1] * y[1]) % P
            /\ g.e = (x[3] * y[3] + P - z[3]) % P
            /\ <<g.x, g.y, g.z>> = <<x[2], y[2], z[2]>>
            /\ \A w \in Assignments :
                  GateHolds(g, w) <=>
                    ((x[1] * w[x[2]] + x[3]) * (y[1] * w[y[2]] + y[3])) % P
                      = (z[1] * w[z[2]] + z[3]) % P

\* C1 witness: a gate was compiled from operands with non-zero constants and
\* scalars other than one, over two different indices
C1_Witness ==
    /\ Pushed("enforce_mul")
    /\ last.args[1].lc[3] # 0 /\ last.args[2].lc[3] # 0 /\ last.args[3].lc[3] # 0
    /\ last.args[1].lc[1] # 1 /\ last.args[3].lc[1] # 1
    /\ last.args[1].lc[2] # last.args[2].lc[2]

\* C2 (as claimed): the gate appended by enforce_generic(x, y, z, a..e) holds
\* on w exactly when a*X + b*Y + c*Z + d*X*Y + e = 0 for the operand values
\* X = x0*w[ix] + x2, Y = y0*w[iy] + y2, Z = z0*w[iz] + z2.
C2_EnforceGenericGate ==
    Pushed("enforce_generic") =>
        LET x == last.args[1].lc
            y == last.args[2].lc
            z == last.args[3].lc
            k == last.coef
        IN  \A w \in Assignments :
              LET X == (x[1] * w[x[2]] + x[3]) % P
                  Y == (y[1] * w[y[2]] + y[3]) % P
                  Z == (z[1] * w[z[2]] + z[3]) % P
              IN  GateHolds(LastGate, w) <=>
                    (k[1] * X + k[2] * Y + k[3] * Z + k[4] * X * Y + k[5]) % P = 0

\* C3: enforce_add(x, y, z) appends the gate a = a0, b = b0, c = -g0, d = 0,
\* e = c0 + c1 - c2 over (ix, iy, iz), and for every witness assignment w that
\* gate holds exactly when (a0*w[ix] + c0) + (b0*w[iy] + c1) = g0*w[iz] + c2.
C3_EnforceAddGate ==
    Pushed("enforce_add") =>
        LET x == last.args[1].lc
            y == last.args[2].lc
            z == last.args[3].lc
            g == LastGate
        IN  /\ g.a = x[1]
            /\ g.b = y[1]
            /\ g.c = (P - z[1]) % P
            /\ g.d = 0
            /\ g.e = (x[3] + y[3] + P - z[3]) % P
            /\ <<g.x, g.y, g.z>> = <<x[2], y[2], z[2]>>
            /\ \A w \in Assignments :
                  GateHolds(g, w) <=>
                    ((x[1] * w[x[2]] + x[3]) + (y[1] * w[y[2]] + y[3])) % P
                      = (z[1] * w[z[2]] + z[3]) % P

\* C3 witness: an addition gate compiled from operands with non-zero constants
C3_Witness ==
    /\ Pushed("enforce_add")
    /\ last.args[1].lc[3] # 0 /\ last.args[2].lc[3] # 0
    /\ last.args[2].lc[1] # 1
    /\ last.args[1].lc[2] # last.args[3].lc[2]

EnforceOps == {"enforce_mul", "enforce_add", "enforce_generic"}

\* the identity an enforce call asserts, on the cached operand values
Asserted(c) ==
    LET xv == Unwrap(c.args[1].value)
        yv == Unwrap(c.args[2].value)
        zv == Unwrap(c.args[3].value)
        k == c.coef
    IN  CASE c.op = "enforce_mul" -> (xv * yv) % P = zv
          [] c.op = "enforce_add" -> (xv + yv) % P = zv
          [] c.op = "enforce_generic" ->
               (k[1] * xv + k[2] * yv + k[3] * zv + k[4] * xv * yv + k[5]) % P = 0

\* C5: with tracking on and the three operand values known, an enforce call
\* fails with UnsatisfiedConstraint exactly when the asserted identity does
\* not hold on those values; a failing call appends no gate and a passing
\* call appends one.
C5_TrackingCheck ==
    (last.op \in EnforceOps /\ tracking
       /\ \A i \in 1 .. 3 : IsSome(last.args[i].value)) =>
        /\ last.outcome = "UnsatisfiedConstraint" <=> ~Asserted(last)
        /\ last.outcome = "UnsatisfiedConstraint" => gates = last.pre.gates
        /\ last.outcome = "ok" => Len(gates) = Len(last.pre.gates) + 1

\* C5 witness: the scenario's failing call, enforce_mul on three bare
\* variables with known values whose product identity is false
C5_Witness ==
    /\ last.op = "enforce_mul" /\ tracking
    /\ last.outcome = "UnsatisfiedConstraint"
    /\ \A i \in 1 .. 3 : IsSome(last.args[i].value)
                         /\ last.args[i].lc[1] = 1 /\ last.args[i].lc[3] = 0

(* ================= claims on inputize, alloc, conversion =============== *)
IsPrefix(s, t) == Len(s) <= Len(t) /\ SubSeq(t, 1, Len(s)) = s

\* C7: inputize(n) on a bare variable reference appends n's index to the
\* public list and creates no variable and no gate; otherwise it allocates
\* exactly one fresh variable holding n's value, appends one gate that holds
\* exactly when the fresh variable equals n, and appends the fresh variable's
\* index.  Either way one entry is added and it names an existing witness slot.
C7_Inputize ==
    last.op = "inputize" =>
        LET n == last.args[1]
            pre == last.pre
            f == Len(pre.values)
        IN  /\ Len(public) = Len(pre.public) + 1
            /\ IsPrefix(pre.public, public)
            /\ public[Len(public)] < Len(values)
            /\ IF n.lc[1] = 1 /\ n.lc[3] = 0
               THEN /\ values = pre.values
                    /\ gates = pre.gates
                    /\ public[Len(public)] = n.lc[2]
               ELSE /\ values = pre.values \o <<n.value>>
                    /\ Len(gates) = Len(pre.gates) + 1
                    /\ IsPrefix(pre.gates, gates)
                    /\ public[Len(public)] = f
                    /\ f # n.lc[2]
                    /\ \A w \in Assignments :
                          GateHolds(LastGate, w) <=>
                            w[f] = (n.lc[1] * w[n.lc[2]] + n.lc[3]) % P

\* C7 witness: a composite operand was exposed through a fresh variable
C7_Witness ==
    /\ last.op = "inputize"
    /\ last.args[1].lc[1] # 1 /\ last.args[1].lc[3] # 0
    /\ IsSome(last.args[1].value)
    /\ Len(public) = 2

\* C8: the k-th call to alloc (from 0, the calls made inside inputize
\* included) returns (1, k, 0), stores its value at witness[k], lengthens the
\* witness vector by one and changes no earlier witness entry, gate or public
\* index; no two calls return the same index.
C8_Alloc ==
    /\ Len(allocd) = Len(values)
    /\ \A k \in 1 .. Len(allocd) : allocd[k] = k - 1
    /\ \A j, k \in 1 .. Len(allocd) : j # k => allocd[j] # allocd[k]
    /\ last.op = "alloc" =>
          /\ last.ret.lc = <<1, Len(last.pre.values), 0>>
          /\ last.ret.value = last.args[1]
          /\ values = last.pre.values \o <<last.args[1]>>
          /\ gates = last.pre.gates
          /\ public = last.pre.public
    /\ (last.op = "inputize" /\ last.ret # << >>) =>
          last.ret.lc = <<1, Len(last.pre.values), 0>>

\* C8 witness: an alloc call that follows an earlier alloc and an inputize
C8_Witness ==
    /\ last.op = "alloc"
    /\ Len(allocd) = 2
    /\ public # << >>
    /\ IsSome(last.args[1])

\* C9 (as claimed): between two fields of the same width and modulus,
\* num_to_halo_fp succeeds and copies limb i to bytes 8i .. 8i+8, and
\* halo_fp_to_num of its result is the original value, for every width.
C9_RoundTrip ==
    (conv # << >> /\ conv.fx = conv.fy) =>
        /\ conv.fwd.status = "ok"
        /\ \A i \in 1 .. conv.fx.nl :
              SubSeq(conv.fwd.val, 8 * (i - 1) + 1, 8 * i) = ToLeBytes(conv.from[i])
        /\ conv.back # << >> => conv.back[1] = Ok(conv.from)

Range(s) == { s[i] : i \in 1 .. Len(s) }

\* the k-th smallest entry (k from 1) of a sequence of numbers
KthSmallest(s, k) ==
    CHOOSE v \in Range(s) :
        /\ Cardinality({ j \in 1 .. Len(s) : s[j] < v }) < k
        /\ k <= Cardinality({ j \in 1 .. Len(s) : s[j] <= v })

\* the field element v as nl little-endian limbs of eight bytes
ElementBytes(v, nl) == [j \in 1 .. (8 * nl) |-> IF j = 1 THEN v ELSE 0]

\* C10: the public-value vector returned by fawkes_cs_to_halo and by
\* extract_inputs is as long as the public-index list, and its k-th entry is
\* the (converted) witness value at the k-th smallest public index.
C10_PublicValues ==
    (phase \in {"converted", "extracted"} /\ halo.status = "ok") =>
        /\ Len(halo.ins) = Len(public)
        /\ \A k \in 1 .. Len(public) :
              LET w == values[KthSmallest(public, k) + 1]
              IN  halo.ins[k] =
                    IF phase = "extracted" \/ ~IsSome(w) THEN w
                    ELSE Some(ElementBytes(Unwrap(w), halo.nl))

\* C10 witness: a conversion returned the values of a public list that was
\* filled out of order and with a repeated index, over differing known values
C10_Witness ==
    /\ phase = "converted" /\ halo.status = "ok"
    /\ public = <<1, 0, 1>>
    /\ IsSome(values[1]) /\ IsSome(values[2]) /\ values[1] # values[2]

(* ==================== claims on the synthesis bridge =================== *)
PlacedCells == { AdviceCell(col, j - 1) : col \in Columns, j \in 1 .. Len(layout.rows) }

\* the cells tied to a cell of S by a chain of copy-constraints
RECURSIVE CopyClosure(_)
CopyClosure(S) ==
    LET T == S \cup UNION { pair \in layout.copies : pair \cap S # {} }
    IN  IF T = S THEN S ELSE CopyClosure(T)

\* the witness index a placed cell was filled for
IndexOf(c) == gates[c[3] + 1][c[2]]

\* C4 (as claimed): after synthesis no witness index occupies two cells
\* without copy-constraints linking them; every later use of an index, in
\* another gate or another operand slot of the same gate, is tied to the cell
\* of its first use.
C4_CopyConstraints ==
    (phase = "synthesized" /\ layout.status = "ok") =>
        \A c, d \in PlacedCells :
            (c # d /\ IndexOf(c) = IndexOf(d)) => d \in CopyClosure({c})

KnownWitness == \A i \in 1 .. Len(values) : IsSome(values[i])

Witness == [i \in 0 .. (Len(values) - 1) |-> Unwrap(values[i + 1])]

\* C6 (as claimed): for a circuit with an exposed value whose gates hold on
\* its witness, verification passes with the witness's public values and
\* fails with any other value in a public slot.
C6_PublicRoundTrip ==
    (/\ phase = "verified" /\ layout.status = "ok"
     /\ public # << >> /\ KnownWitness
     /\ \A j \in 1 .. Len(gates) : GateHolds(gates[j], Witness)) =>
        (verdict.result = "pass" <=> verdict.ins = HonestInputs)

\* a row of the layout on which nothing was placed
RowUntouched(r) == ~r.sel /\ r.x = << >> /\ r.y = << >> /\ r.z = << >> /\ r.k = << >>

\* C12 (as claimed): when gates plus public inputs exceed the row capacity,
\* synthesis ends in a row-capacity error, and a run that ends in that error
\* has enabled no selector and assigned no cell.
C12_RowBudget ==
    phase = "synthesized" =>
        /\ Len(gates) + Len(public) > layout.cap => layout.status # "ok"
        /\ layout.status = "NotEnoughRowsAvailable" =>
              \A j \in 1 .. Len(layout.rows) : RowUntouched(layout.rows[j])

\* the operand slots of row j of the layout that hold a cell
FilledSlots(j) == { col \in Columns : layout.rows[j][col] # << >> }

\* the public position p a reference or a cell names is one of index i
AtPublicPosition(p, i) ==
    p < Len(public) /\ Sorted(public)[p + 1] = i

\* placement of the operand for witness index i found in cell c: a public
\* index is copied from the instance position that holds it, any other index
\* is not taken from the instance column
PlacedAsClaimed(i, c) ==
    LET content == layout.rows[c[3] + 1][c[2]][1]
    IN  IF i \in Range(public)
        THEN /\ content.from = "instance"
             /\ AtPublicPosition(content.pos, i)
             /\ {InstanceCell(content.pos), c} \in layout.rows[c[3] + 1].copies
        ELSE content.from # "instance"

\* C13 (as claimed): in the halo2_circuit.rs bridge, in the mod.rs conversion
\* and in the prover.rs bridge, an operand with a public witness index is
\* taken from the instance column at the position of that index in the sorted
\* public list, never assigned as a free advice value, and an operand with a
\* private index is never taken from the instance column.
C13_PublicOperands ==
    /\ phase \in {"synthesized", "prover_synthesized"} =>
          \A j \in 1 .. Len(layout.rows) : \A col \in FilledSlots(j) :
              PlacedAsClaimed(gates[j][col], AdviceCell(col, j - 1))
    /\ (phase = "converted" /\ halo.status = "ok") =>
          \A j \in 1 .. Len(gates) : \A col \in Columns :
              LET ref == halo.gates[j][col]
                  i == gates[j][col]
              IN  IF i \in Range(public)
                  THEN /\ ref.kind = "ValueInstance"
                       /\ AtPublicPosition(ref.i, i)
                       /\ halo.ins[ref.i + 1] = ConvertOption(values[i + 1], halo.nl).val
                  ELSE ref.kind = "ValueAdvice"

\* the same placement rule for the two ValueReference revisions alone
C13_ValueReferenceOnly ==
    phase # "prover_synthesized" => C13_PublicOperands

(* ====================== claims on call sequences ======================= *)
\* the step is a successful enforce call
EnforceStep == last'.op \in EnforceOps /\ last'.outcome = "ok"

\* the step is an inputize call on a composite operand
EqualityGateStep == last'.op = "inputize" /\ ~IsBare(last'.args[1])

\* C14: a successful enforce_mul, enforce_add or enforce_generic call appends
\* exactly one gate at the end of the gate list and changes neither the
\* witness vector, the public list, the tracking flag nor an earlier gate;
\* and the gate list grows by one in exactly the successful enforce calls and
\* the inputize calls on a composite operand, so its length counts them.
C14_EnforceFrame ==
    [][ /\ EnforceStep =>
            /\ Len(gates') = Len(gates) + 1
            /\ SubSeq(gates', 1, Len(gates)) = gates
            /\ values' = values
            /\ public' = public
            /\ tracking' = tracking
        /\ Len(gates') - Len(gates) =
              IF EnforceStep \/ EqualityGateStep THEN 1 ELSE 0 ]_vars

\* C14 witness: a successful enforce call made with tracking on, after an
\* earlier gate, compiling a gate unlike the earlier one
C14_Witness ==
    /\ last.op \in EnforceOps /\ last.outcome = "ok" /\ tracking
    /\ Len(last.pre.gates) = 1 /\ Len(gates) = 2 /\ gates[1] # gates[2]

\* C17: every gate's x, y and z index and every entry of the public list is
\* below the length of the witness vector, after any sequence of alloc,
\* enforce and inputize calls on operands over allocated variables.
C17_IndicesInRange ==
    /\ \A j \in 1 .. Len(gates) :
          gates[j].x < Len(values) /\ gates[j].y < Len(values) /\ gates[j].z < Len(values)
    /\ \A k \in 1 .. Len(public) : public[k] < Len(values)

\* C17 witness: a gate and a public entry both name the last witness slot,
\* the public entry through the variable inputize allocated
C17_Witness ==
    /\ last.op = "inputize" /\ ~IsBare(last.args[1])
    /\ public[Len(public)] = Len(values) - 1
    /\ gates[Len(gates)].x = Len(values) - 1
    /\ Len(gates) = 2

\* C16 (as claimed): with tracking on and every witness value known, after
\* any sequence of successful alloc and enforce calls every gate of the gate
\* list holds on the stored witness vector.
C16_TrackedGatesHold ==
    (tracking /\ KnownWitness) =>
        \A j \in 1 .. Len(gates) : GateHolds(gates[j], Witness)

\* the placement of an operand of row r failed
OperandFailed(r) ==
    IF phase = "prover_synthesized" THEN r.dropped # << >>
    ELSE r.sel /\ r.status # "ok"

\* row r was left at its first operand failure: the slots are filled in the
\* order x, y, z up to an empty one, and no coefficient was assigned
LeftAtFailure(r) ==
    /\ r.z = << >> /\ r.k = << >>
    /\ r.x = << >> => r.y = << >>

\* C15 (as claimed): in the halo2_circuit.rs bridge and in the prover.rs
\* bridge, a gate whose operand placement fails gets no further operand and
\* no coefficient assigned, it is the last gate placed, and synthesis returns
\* an error.
C15_OperandFailureStops ==
    phase \in {"synthesized", "prover_synthesized"} =>
        \A j \in 1 .. Len(layout.rows) :
            OperandFailed(layout.rows[j]) =>
                /\ LeftAtFailure(layout.rows[j])
                /\ j = Len(layout.rows)
                /\ layout.status # "ok"

====
